---- MODULE Spec2Model ----
(***************************************************************************)
(* The live innings scoring engine of acethletics-server: updateInnings    *)
(* (PATCH /matches/:matchId/innings/:inningsId) in its two revisions,      *)
(*   rev "A" = src/api/controllers/Admin/matchController.js                *)
(*   rev "B" = src/api/router/v1/index.js (the controller text it holds)   *)
(* run inside a MongoDB transaction (session.startTransaction ...          *)
(* commitTransaction / abortTransaction).                                  *)
(*                                                                         *)
(* The persisted state is the Match that owns the innings (m1), one other  *)
(* Match of the tournament (m2), one Innings and the Status documents of   *)
(* the players under either match for that innings number.  A Status       *)
(* document of m1 is named by its player (the unique index                 *)
(* match_id/innings_number/player_id), so its _id and its player_id are    *)
(* the same value here; StatusIdOf names the documents under m2.  The      *)
(* Status paths are the ones the controllers read and write (the batting,  *)
(* bowling and fielding sub-documents).                                    *)
(***************************************************************************)
EXTENDS Integers, Sequences, FiniteSets, TLC

VARIABLES rev, db, tx, base, ncalls, legal

vars == <<rev, db, tx, base, ncalls, legal>>

(***************************************************************************)
(* Bounds of the model.                                                    *)
(***************************************************************************)
MaxCalls == 4
MaxConcCalls == 4
MaxDeepCalls == 13

(***************************************************************************)
(* Program constants.                                                      *)
(***************************************************************************)
BallsPerOver == 6
AllOutWickets == 10
CommentaryCap == 20

None == "none"
NoRole == 0 - 1
Batters == {"b1", "b2", "b3"}
Fielders == {"w1", "w2", "wk"}
Players == Batters \cup Fielders
Clients == {1, 2}
Matches == {"m1", "m2"}

\* the _id of the Status document of player p under match m: the unique
\* index (match_id, innings_number, player_id); the documents of the match
\* that owns the innings are named by the player
StatusIdOf(m, p) ==
    IF m # "m2" THEN p
    ELSE CASE p = "b1" -> "m2b1" [] p = "b2" -> "m2b2" [] p = "b3" -> "m2b3"
           [] p = "w1" -> "m2w1" [] p = "w2" -> "m2w2" [] p = "wk" -> "m2wk"
           [] OTHER -> p

StatusIds == Players \cup {StatusIdOf("m2", p) : p \in Players}

\* the player_id of a Status document
PlayerOf(k) ==
    CASE k = "m2b1" -> "b1" [] k = "m2b2" -> "b2" [] k = "m2b3" -> "b3"
      [] k = "m2w1" -> "w1" [] k = "m2w2" -> "w2" [] k = "m2wk" -> "wk"
      [] OTHER -> k

(***************************************************************************)
(* The outcome catalog (constant/ballOutcomes.js): code -> descriptor.     *)
(***************************************************************************)
Codes == {"run", "four", "six", "wide", "noball", "bye", "leg_bye", "wicket"}

Descriptor(r, e, b, w, d) ==
    [given |-> TRUE, runs |-> r, extras |-> e, ball_counts |-> b,
     is_wicket |-> w, description |-> d]

NoCustom ==
    [given |-> FALSE, runs |-> 0, extras |-> 0, ball_counts |-> FALSE,
     is_wicket |-> FALSE, description |-> FALSE]

ballOutcomes ==
    [c \in Codes |->
        CASE c = "run"     -> Descriptor(1, 0, TRUE, FALSE, TRUE)
          [] c = "four"    -> Descriptor(4, 0, TRUE, FALSE, TRUE)
          [] c = "six"     -> Descriptor(6, 0, TRUE, FALSE, TRUE)
          [] c = "wide"    -> Descriptor(0, 1, FALSE, FALSE, TRUE)
          [] c = "noball"  -> Descriptor(0, 1, FALSE, FALSE, TRUE)
          [] c = "bye"     -> Descriptor(0, 1, TRUE, FALSE, TRUE)
          [] c = "leg_bye" -> Descriptor(0, 1, TRUE, FALSE, TRUE)
          [] c = "wicket"  -> Descriptor(0, 0, TRUE, TRUE, TRUE)]

(***************************************************************************)
(* Documents.                                                              *)
(***************************************************************************)
NoStatus ==
    [exists |-> FALSE, runs |-> 0, balls_faced |-> 0, fours |-> 0, sixes |-> 0,
     stricking_role |-> NoRole, out_type |-> None, bowler_when_out |-> None,
     runs_conceded |-> 0, balls_bowled |-> 0, wickets |-> 0, wides |-> 0,
     no_balls |-> 0, extras_conceded |-> 0, catches |-> 0, stumpings |-> 0]

NewStatus == [NoStatus EXCEPT !.exists = TRUE]

\* startInnings: Status documents of the two openers, the keeper and the bowler
InitialStatus ==
    [p \in StatusIds |->
        CASE p = "b1" -> [NewStatus EXCEPT !.stricking_role = 1]
          [] p = "b2" -> [NewStatus EXCEPT !.stricking_role = 2]
          [] p \in {"wk", "w1"} -> NewStatus
          [] OTHER -> NoStatus]

\* startInnings: the Innings document.  Rev A keeps the two openers in
\* batting_order; rev B starts batting_order empty (it collects the dismissed).
InitialInnings(r, n) ==
    [innings_number |-> n, status |-> "ongoing", endTime |-> FALSE,
     runs |-> 0, wickets |-> 0, balls |-> 0, overs |-> 0,
     wides |-> 0, noBalls |-> 0, byes |-> 0, legByes |-> 0,
     penalty_runs |-> 0, total |-> 0,
     batting_order |-> IF r = "A" THEN <<"b1", "b2">> ELSE <<>>,
     current_batsmen |-> <<"b1", "b2">>,
     current_bowler |-> "w1",
     commentary |-> <<>>]

\* the Match document once an innings has been started (target 0 = null)
InitialMatch(ov, tgt) ==
    [overs |-> ov, target_runs |-> tgt, winner |-> None,
     status |-> "in_progress", endTime |-> FALSE]

OtherOvers == 2

\* another match of the tournament, created and not yet started
UpcomingMatch == [InitialMatch(OtherOvers, 0) EXCEPT !.status = "upcoming"]

IdleTx ==
    [pc |-> "idle", i |-> 0, stale |-> {}, resp |-> 0,
     committed |-> FALSE, emit |-> "none",
     req |-> [outcome |-> "", custom |-> NoCustom, bowler |-> None,
              fielder |-> None, dismissal |-> None, next |-> None,
              nextRole |-> 0, inningsId |-> "i1", matchId |-> "m1"],
     snap |-> [innings |-> InitialInnings("A", 1), match |-> InitialMatch(1, 0),
               other |-> UpcomingMatch, status |-> InitialStatus]]

(***************************************************************************)
(* Helpers.                                                                *)
(***************************************************************************)
RECURSIVE FindRole(_, _, _)
\* Array.prototype.find over Status documents: the first one with the role
FindRole(seq, st, r) ==
    IF seq = <<>> THEN None
    ELSE IF st[Head(seq)].exists /\ st[Head(seq)].stricking_role = r
         THEN Head(seq)
         ELSE FindRole(Tail(seq), st, r)

RECURSIVE Without(_, _)
\* Array.prototype.filter(x => x !== p)
Without(seq, p) ==
    IF seq = <<>> THEN <<>>
    ELSE IF Head(seq) = p THEN Without(Tail(seq), p)
         ELSE <<Head(seq)>> \o Without(Tail(seq), p)

InSeq(seq, p) == \E k \in 1..Len(seq) : seq[k] = p

\* faulty variant: a cap that keeps the oldest entries
TrimKeepsOldest(c) ==
    IF Len(c) > CommentaryCap THEN SubSeq(c, 1, CommentaryCap) ELSE c

\* InningsSchema.pre('save'): keep the last CommentaryCap entries
TrimCommentary(c) ==
    IF Len(c) > CommentaryCap
    THEN SubSeq(c, Len(c) - CommentaryCap + 1, Len(c))
    ELSE c

\* one commentary entry, computed from the ball count at the time of the push
Entry(balls, text) ==
    [over |-> (balls \div BallsPerOver) + 1,
     ball |-> IF balls % BallsPerOver = 0 THEN BallsPerOver ELSE balls % BallsPerOver,
     description |-> text]

(***************************************************************************)
(* bulkOps: the updateOne operations collected for Status.bulkWrite.       *)
(***************************************************************************)
NoChange == 0 - 2

NoOp(p) ==
    [id |-> p, runs |-> 0, balls_faced |-> 0, fours |-> 0, sixes |-> 0,
     runs_conceded |-> 0, balls_bowled |-> 0, wickets |-> 0, wides |-> 0,
     no_balls |-> 0, extras_conceded |-> 0, catches |-> 0, stumpings |-> 0,
     role |-> NoChange, out |-> FALSE, out_type |-> None, bowler_when_out |-> None]

\* $inc of the bowling figures of one delivery
BowlerUpdates(p, o, outcome) ==
    [NoOp(p) EXCEPT
        !.runs_conceded = o.runs + o.extras,
        !.balls_bowled = IF o.ball_counts THEN 1 ELSE 0,
        !.wickets = IF o.is_wicket THEN 1 ELSE 0,
        !.wides = IF outcome = "wide" THEN 1 ELSE 0,
        !.no_balls = IF outcome = "noball" THEN 1 ELSE 0,
        !.extras_conceded = o.extras]

\* $inc of the striker's batting figures
StrikerUpdates(p, o) ==
    [NoOp(p) EXCEPT
        !.runs = o.runs,
        !.balls_faced = IF o.ball_counts THEN 1 ELSE 0,
        !.fours = IF o.runs = 4 THEN 1 ELSE 0,
        !.sixes = IF o.runs = 6 THEN 1 ELSE 0]

\* $set of the dismissed striker's out details
OutUpdate(p, q) ==
    [NoOp(p) EXCEPT
        !.out = TRUE,
        !.out_type = IF q.dismissal # None THEN q.dismissal ELSE "Out",
        !.bowler_when_out = q.bowler,
        !.role = 0]

RoleUpdate(p, r) == [NoOp(p) EXCEPT !.role = r]

FielderUpdates(p, dismissal) ==
    [NoOp(p) EXCEPT
        !.catches = IF dismissal = "caught" THEN 1 ELSE 0,
        !.stumpings = IF dismissal = "stumped" THEN 1 ELSE 0]

\* one updateOne applied by the server (a filter that matches nothing is a no-op)
ApplyUpdate(st, u) ==
    IF ~st[u.id].exists THEN st
    ELSE [st EXCEPT ![u.id] =
            [@ EXCEPT
                !.runs = @ + u.runs,
                !.balls_faced = @ + u.balls_faced,
                !.fours = @ + u.fours,
                !.sixes = @ + u.sixes,
                !.runs_conceded = @ + u.runs_conceded,
                !.balls_bowled = @ + u.balls_bowled,
                !.wickets = @ + u.wickets,
                !.wides = @ + u.wides,
                !.no_balls = @ + u.no_balls,
                !.extras_conceded = @ + u.extras_conceded,
                !.catches = @ + u.catches,
                !.stumpings = @ + u.stumpings,
                !.stricking_role = IF u.role = NoChange THEN @ ELSE u.role,
                !.out_type = IF u.out THEN u.out_type ELSE @,
                !.bowler_when_out = IF u.out THEN u.bowler_when_out ELSE @]]

RECURSIVE ApplyBulk(_, _)
\* Status.bulkWrite(bulkOps): ordered
ApplyBulk(st, bulk) ==
    IF bulk = <<>> THEN st
    ELSE ApplyBulk(ApplyUpdate(st, Head(bulk)), Tail(bulk))

BulkIds(bulk) == {bulk[k].id : k \in 1..Len(bulk)}

(***************************************************************************)
(* The state of one running call: the request q, its resolved outcome o,   *)
(* the documents it holds in memory (inn, match), the Status documents as  *)
(* its transaction sees them (st), the bulkOps collected, the writes       *)
(* issued so far in the session (ops) and how it ended (fail, code).       *)
(***************************************************************************)
Resolve(q) == IF q.outcome \in Codes THEN ballOutcomes[q.outcome] ELSE q.custom

\* Match.findById(matchId)
MatchOf(s, q) == IF q.matchId = "m2" THEN s.other ELSE s.match

Ctx(s, q) ==
    [q |-> q, o |-> Resolve(q),
     inn |-> s.innings, match |-> MatchOf(s, q), saved |-> MatchOf(s, q),
     st |-> s.status,
     bulkOps |-> <<>>, ops |-> <<>>, striker |-> None, nonStriker |-> None,
     fail |-> "", code |-> 0]

Fail(x, kind, code) == [x EXCEPT !.fail = kind, !.code = code]

Running(x) == x.fail = ""

Img(x) == [innings |-> x.inn, match |-> x.match, status |-> x.st]

\* a write issued in the session: the documents written and their new content
WriteOp(x, docs) == [x EXCEPT !.ops = Append(@, [docs |-> docs, img |-> Img(x)])]

\* innings.save({ session }), the pre-save hook included
InningsSave(x) ==
    WriteOp([x EXCEPT !.inn.commentary = TrimCommentary(@)], {"innings"})

\* the Match document the call holds
MatchKey(x) == IF x.q.matchId = "m2" THEN "other" ELSE "match"

\* match.save({ session }): an update is sent only for modified paths
MatchSave(x) ==
    IF x.match = x.saved THEN x
    ELSE WriteOp([x EXCEPT !.saved = x.match], {MatchKey(x)})

\* Status.findOne({ player_id, match_id: matchId, innings_number }): the
\* document of player p under the match named in the path
Under(x, p) == StatusIdOf(x.q.matchId, p)

\* new Status(doc).save({ session }) / Status.create([doc], { session })
StatusCreate(x, p, doc) == WriteOp([x EXCEPT !.st[p] = doc], {p})

PushCommentary(x, text) ==
    [x EXCEPT !.inn.commentary = Append(@, Entry(x.inn.balls, text))]

(***************************************************************************)
(* Score Accumulator.                                                      *)
(***************************************************************************)
\* innings.score.runs / extras.total and the extras bucket of the outcome code
AddRuns(x) ==
    LET e == x.o.extras
        c == x.q.outcome
    IN [x EXCEPT
          !.inn.runs = @ + x.o.runs + e,
          !.inn.total = @ + e,
          !.inn.wides = IF c = "wide" THEN @ + e ELSE @,
          !.inn.noBalls = IF c = "noball" THEN @ + e ELSE @,
          !.inn.byes = IF c = "bye" THEN @ + e ELSE @,
          !.inn.legByes = IF c = "leg_bye" THEN @ + e ELSE @]

\* overs is floor(balls/6) + (balls%6)/10, kept here in tenths
OversOf(balls) == 10 * (balls \div BallsPerOver) + (balls % BallsPerOver)

\* faulty variant: every delivery is counted as a ball
AddBallAlways(x) ==
    [x EXCEPT !.inn.balls = @ + 1, !.inn.overs = OversOf(x.inn.balls + 1)]

\* innings.score.balls / overs, only when the outcome counts as a ball
AddBall(x) ==
    IF x.o.ball_counts
    THEN [x EXCEPT !.inn.balls = @ + 1, !.inn.overs = OversOf(x.inn.balls + 1)]
    ELSE x

(***************************************************************************)
(* Completion Evaluator (the same text in both revisions).                 *)
(***************************************************************************)
\* Match has no batting_team_id / bowling_team_id path: reading one gives
\* undefined, and assigning undefined to match.winner leaves no winner
MatchTeamPath == None

\* innings 2 over: winner by comparing runs with the target; 'Tie' is no
\* ObjectId, so match.save() rejects with a ValidationError
SecondInningsResult(x) ==
    LET runs == x.inn.runs
        tgt  == x.match.target_runs
        m    == [x.match EXCEPT !.winner = MatchTeamPath,
                                !.status = "completed", !.endTime = TRUE]
    IN IF runs # tgt
       THEN PushCommentary(MatchSave([x EXCEPT !.match = m]), "win")
       ELSE Fail(x, "throw", 400)

\* innings 1 over: the target for innings 2
FirstInningsTarget(x) ==
    PushCommentary(
        MatchSave([x EXCEPT !.match.target_runs = x.inn.runs + 1]), "target")

\* the body shared by "overs are completed" and "all wickets have fallen"
CompleteInnings(x) ==
    LET y == [x EXCEPT !.inn.status = "completed", !.inn.endTime = TRUE]
    IN IF y.inn.innings_number = 1 THEN FirstInningsTarget(y)
       ELSE IF y.inn.innings_number = 2 THEN SecondInningsResult(y)
       ELSE y

\* "target is achieved": innings 2, a target set, runs >= target
TargetReached(x) ==
    IF x.inn.innings_number = 2 /\ x.match.target_runs # 0
       /\ x.inn.runs >= x.match.target_runs
    THEN PushCommentary(
            MatchSave([x EXCEPT !.inn.status = "completed", !.inn.endTime = TRUE,
                                !.match.winner = MatchTeamPath,
                                !.match.status = "completed",
                                !.match.endTime = TRUE]), "reached")
    ELSE x

OversDone(x) ==
    IF Running(x) /\ x.inn.balls >= x.match.overs * BallsPerOver
    THEN CompleteInnings(x) ELSE x

AllOut(x) ==
    IF Running(x) /\ x.inn.wickets >= AllOutWickets
    THEN CompleteInnings(x) ELSE x

ChaseDone(x) == IF Running(x) THEN TargetReached(x) ELSE x

\* "Check for match completion conditions": only after a ball that counts
Completion(x) ==
    IF Running(x) /\ x.o.ball_counts THEN ChaseDone(AllOut(OversDone(x))) ELSE x

\* Status.bulkWrite(bulkOps, { session }), then innings.save({ session })
FinishWrites(x) ==
    IF ~Running(x) THEN x
    ELSE LET y == IF Len(x.bulkOps) > 0
                  THEN WriteOp([x EXCEPT !.st = ApplyBulk(x.st, x.bulkOps)],
                               BulkIds(x.bulkOps))
                  ELSE x
         IN InningsSave(y)

(***************************************************************************)
(* updateInnings, revision A (controllers/Admin/matchController.js).       *)
(***************************************************************************)
\* faulty variant: the checks without "Cannot update a completed innings"
ValidateACompletedToo(s, q) ==
    LET x == Ctx(s, q)
    IN IF q.outcome = "wicket" /\ (q.next = None \/ q.nextRole = 0)
       THEN Fail(x, "reject", 400)
       ELSE IF q.nextRole # 0 /\ q.nextRole \notin {1, 2}
       THEN Fail(x, "reject", 400)
       ELSE IF q.outcome = ""
       THEN Fail(x, "reject", 400)
       ELSE IF ~Resolve(q).given
       THEN Fail(x, "reject", 400)
       ELSE IF q.inningsId # "i1"
       THEN Fail(x, "reject", 404)
       ELSE IF q.matchId \notin Matches
       THEN Fail(x, "reject", 404)
       ELSE x

\* the checks before the transaction's first write
ValidateA(s, q) ==
    LET x == Ctx(s, q)
    IN IF q.outcome = "wicket" /\ (q.next = None \/ q.nextRole = 0)
       THEN Fail(x, "reject", 400)
       ELSE IF q.nextRole # 0 /\ q.nextRole \notin {1, 2}
       THEN Fail(x, "reject", 400)
       ELSE IF q.outcome = ""
       THEN Fail(x, "reject", 400)
       ELSE IF ~Resolve(q).given
       THEN Fail(x, "reject", 400)
       ELSE IF q.inningsId # "i1"
       THEN Fail(x, "reject", 404)
       ELSE IF s.innings.status = "completed"
       THEN Fail(x, "reject", 400)
       ELSE IF q.matchId \notin Matches
       THEN Fail(x, "reject", 404)
       ELSE x

\* the Status document created for a bowler who has none
NewBowlerStatus(o, outcome) ==
    [NewStatus EXCEPT
        !.runs_conceded = o.runs + o.extras,
        !.balls_bowled = IF o.ball_counts THEN 1 ELSE 0,
        !.wickets = IF o.is_wicket THEN 1 ELSE 0,
        !.wides = IF outcome = "wide" THEN 1 ELSE 0,
        !.no_balls = IF outcome = "noball" THEN 1 ELSE 0,
        !.extras_conceded = o.extras]

BowlerOf(x) ==
    IF x.q.bowler # None THEN x.q.bowler ELSE PlayerOf(x.inn.current_bowler)

\* rev A: a missing bowler Status is created and the innings saved, then
\* bowlerStatus._id is read off the null findOne result: a TypeError
BowlerA(x) ==
    IF ~Running(x) THEN x
    ELSE LET p == Under(x, BowlerOf(x))
         IN IF ~x.st[p].exists
            THEN LET y == StatusCreate(x, p, NewBowlerStatus(x.o, x.q.outcome))
                     z == InningsSave([y EXCEPT !.inn.current_bowler = BowlerOf(x)])
                 IN Fail(z, "throw", 500)
            ELSE [x EXCEPT !.bulkOps = Append(@, BowlerUpdates(p, x.o, x.q.outcome))]

\* rev A: the striker is the first populated current batsman with role 1
StrikerA(x) ==
    IF ~Running(x) THEN x
    ELSE LET p == FindRole(x.inn.current_batsmen, x.st, 1)
         IN IF p = None THEN Fail(x, "reject", 400)
            ELSE [x EXCEPT !.striker = p,
                           !.bulkOps = Append(@, StrikerUpdates(p, x.o))]

CommentaryA(x) == IF Running(x) THEN PushCommentary(x, "ball") ELSE x

CreditsFielder(dismissal) == dismissal \in {"caught", "stumped"}

NewFielderStatus(dismissal) ==
    [NewStatus EXCEPT
        !.catches = IF dismissal = "caught" THEN 1 ELSE 0,
        !.stumpings = IF dismissal = "stumped" THEN 1 ELSE 0]

\* rev A: the fielder is credited in the found/else branch and once more
\* after it, where fielderStatus._id is read even when findOne gave null
FielderA(x) ==
    LET f == Under(x, x.q.fielder)
        d == x.q.dismissal
    IN IF ~(x.q.fielder # None /\ d # None) THEN x
       ELSE IF ~x.st[f].exists
       THEN LET y == StatusCreate(x, f, NewFielderStatus(d))
            IN IF CreditsFielder(d) THEN Fail(y, "throw", 500) ELSE y
       ELSE IF CreditsFielder(d)
       THEN [x EXCEPT !.bulkOps = @ \o <<FielderUpdates(f, d), FielderUpdates(f, d)>>]
       ELSE x

NewBatsmanStatus(role) == [NewStatus EXCEPT !.stricking_role = role]

\* rev A: the next batsman must be in batting_order; his Status is found or
\* created, pushed to current_batsmen, and the remaining batsman with role 2
\* is given role 1 unless the newcomer takes role 1
NextBatsmanA(x) ==
    LET n == Under(x, x.q.next)
        r == x.q.nextRole
    IN IF ~Running(x) THEN x
       ELSE IF x.q.next = None THEN Fail(x, "reject", 400)
       ELSE IF ~InSeq(x.inn.batting_order, x.q.next) THEN Fail(x, "reject", 400)
       ELSE IF ~x.st[n].exists
       THEN \* Status.create([...]) resolves to an array, which push() cannot cast
            Fail(StatusCreate(x, n, NewBatsmanStatus(r)), "throw", 500)
       ELSE LET y == IF x.st[n].stricking_role # r
                     THEN [x EXCEPT !.bulkOps = Append(@, RoleUpdate(n, r))]
                     ELSE x
                z == [y EXCEPT !.inn.current_batsmen = Append(@, n)]
                e == FindRole(z.inn.current_batsmen, z.st, 2)
            IN IF e # None /\ r # 1
               THEN [z EXCEPT !.bulkOps = Append(@, RoleUpdate(e, 1))]
               ELSE z

WicketA(x) ==
    LET y == [x EXCEPT !.inn.wickets = @ + 1,
                       !.bulkOps = Append(@, OutUpdate(x.striker, x.q))]
        z == FielderA(y)
    IN IF ~Running(z) THEN z
       ELSE NextBatsmanA(
              [z EXCEPT !.inn.current_batsmen = Without(@, x.striker)])

RECURSIVE FlipAll(_, _)
\* current_batsmen.forEach: each batsman's role becomes 2 if it was 1, else 1
FlipAll(seq, st) ==
    IF seq = <<>> THEN <<>>
    ELSE <<RoleUpdate(Head(seq), IF st[Head(seq)].stricking_role = 1 THEN 2 ELSE 1)>>
         \o FlipAll(Tail(seq), st)

OddRuns(x) == x.o.ball_counts /\ x.o.runs % 2 # 0
OverEnds(x) == x.o.ball_counts /\ x.inn.balls % BallsPerOver = 0

\* rev A: each trigger pushes role updates computed from the roles as read
RotateA(x) ==
    LET y == IF OddRuns(x)
             THEN [x EXCEPT !.bulkOps = @ \o FlipAll(x.inn.current_batsmen, x.st)]
             ELSE x
    IN IF OverEnds(y)
       THEN TargetReached(
              [y EXCEPT !.bulkOps = @ \o FlipAll(y.inn.current_batsmen, y.st)])
       ELSE y

WicketOrRotateA(x) ==
    IF ~Running(x) THEN x
    ELSE IF x.o.is_wicket THEN WicketA(x) ELSE RotateA(x)

HandleA(s, q) ==
    LET x == ValidateA(s, q)
    IN IF ~Running(x) THEN x
       ELSE FinishWrites(Completion(WicketOrRotateA(
              CommentaryA(StrikerA(BowlerA(AddBall(AddRuns(x))))))))

(***************************************************************************)
(* updateInnings, revision B (the controller text in router/v1/index.js).  *)
(***************************************************************************)
\* rev B rejects any request that carries a customOutcome
ValidateB(s, q) ==
    LET x == Ctx(s, q)
    IN IF q.outcome = "wicket" /\ q.next = None
       THEN Fail(x, "reject", 400)
       ELSE IF q.nextRole # 0 /\ q.nextRole \notin {1, 2}
       THEN Fail(x, "reject", 400)
       ELSE IF q.outcome = "" \/ q.custom.given
       THEN Fail(x, "reject", 400)
       ELSE IF ~Resolve(q).given
       THEN Fail(x, "reject", 400)
       ELSE IF q.inningsId # "i1"
       THEN Fail(x, "reject", 404)
       ELSE IF s.innings.status = "completed"
       THEN Fail(x, "reject", 400)
       ELSE IF q.matchId \notin Matches
       THEN Fail(x, "reject", 404)
       ELSE x

\* rev B writes the commentary before the ball is counted; without a
\* description the switch reads strikerStatus / bowlerStatus before their
\* const declarations: a ReferenceError
CommentaryB(x) ==
    IF ~x.o.description
       /\ x.q.outcome \in {"run", "four", "six", "wide", "noball", "wicket"}
    THEN Fail(x, "throw", 500)
    ELSE PushCommentary(x, "ball")

\* rev B: a missing bowler Status is created and becomes current_bowler
BowlerB(x) ==
    IF ~Running(x) THEN x
    ELSE LET p == Under(x, BowlerOf(x))
         IN IF ~x.st[p].exists
            THEN [StatusCreate(x, p, NewBowlerStatus(x.o, x.q.outcome))
                    EXCEPT !.inn.current_bowler = BowlerOf(x)]
            ELSE [x EXCEPT !.bulkOps = Append(@, BowlerUpdates(p, x.o, x.q.outcome))]

\* Status.find({ player_id: { $in: current_batsmen }, match_id: matchId })
BatsmenStatuses(x) ==
    [k \in 1..Len(x.inn.current_batsmen) |-> Under(x, x.inn.current_batsmen[k])]

\* rev B: Status.find over the current batsmen, then the first with role 1
\* and the first with role 2; both must be there
StrikerB(x) ==
    IF ~Running(x) THEN x
    ELSE LET p == FindRole(BatsmenStatuses(x), x.st, 1)
             n == FindRole(BatsmenStatuses(x), x.st, 2)
         IN IF p = None \/ n = None THEN Fail(x, "reject", 400)
            ELSE [x EXCEPT !.striker = p, !.nonStriker = n,
                           !.bulkOps = Append(@, StrikerUpdates(p, x.o))]

\* rev B: a fielder is accepted only with caught or stumped
FielderB(x) ==
    LET f == Under(x, x.q.fielder)
        d == x.q.dismissal
    IN IF ~(x.q.fielder # None /\ d # None) THEN x
       ELSE IF ~CreditsFielder(d) THEN Fail(x, "reject", 400)
       ELSE IF ~x.st[f].exists THEN StatusCreate(x, f, NewFielderStatus(d))
       ELSE [x EXCEPT !.bulkOps = Append(@, FielderUpdates(f, d))]

\* rev B: filter(batsman => batsman !== strikerStatus.player_id.toString())
\* compares an ObjectId with a string, so it drops nothing
FilterStrikerB(seq, p) == seq

\* (next_batsman_strike_role || striker.role === 1) ? 2 : 1
DesiredRoleB(x) ==
    IF x.q.nextRole # 0 \/ x.st[x.striker].stricking_role = 1 THEN 2 ELSE 1

NextBatsmanB(x) ==
    LET n == Under(x, x.q.next)
        r == IF x.q.nextRole # 0 THEN x.q.nextRole
             ELSE x.st[x.striker].stricking_role
    IN IF ~Running(x) THEN x
       ELSE IF x.q.next = None THEN Fail(x, "reject", 400)
       ELSE LET y == IF ~x.st[n].exists
                     THEN StatusCreate(x, n, NewBatsmanStatus(r))
                     ELSE x
                z == [y EXCEPT !.inn.current_batsmen = Append(@, x.q.next),
                               !.inn.batting_order = Append(@, PlayerOf(x.striker))]
            IN IF z.st[z.nonStriker].stricking_role # DesiredRoleB(z)
               THEN [z EXCEPT !.bulkOps =
                                Append(@, RoleUpdate(z.nonStriker, DesiredRoleB(z)))]
               ELSE z

WicketB(x) ==
    LET y == [x EXCEPT !.inn.wickets = @ + 1,
                       !.bulkOps = Append(@, OutUpdate(x.striker, x.q))]
        z == FielderB(y)
    IN IF ~Running(z) THEN z
       ELSE NextBatsmanB(
              [z EXCEPT !.inn.current_batsmen = FilterStrikerB(@, x.striker)])

\* rev B: each trigger swaps the two roles held in memory and pushes both
SwapPush(x, rs, rn) ==
    [x EXCEPT !.bulkOps = @ \o <<RoleUpdate(x.striker, rs),
                                 RoleUpdate(x.nonStriker, rn)>>]

RotateB(x) ==
    LET rs == x.st[x.striker].stricking_role
        rn == x.st[x.nonStriker].stricking_role
    IN IF OddRuns(x) /\ OverEnds(x)
       THEN SwapPush(SwapPush(x, rn, rs), rs, rn)
       ELSE IF OddRuns(x) \/ OverEnds(x)
       THEN SwapPush(x, rn, rs)
       ELSE x

WicketOrRotateB(x) ==
    IF ~Running(x) THEN x
    ELSE IF x.o.is_wicket THEN WicketB(x) ELSE RotateB(x)

HandleB(s, q) ==
    LET x == ValidateB(s, q)
    IN IF ~Running(x) THEN x
       ELSE LET c == CommentaryB(AddRuns(x))
            IN IF ~Running(c) THEN c
               ELSE FinishWrites(Completion(WicketOrRotateB(
                      StrikerB(BowlerB(AddBall(c))))))

Handle(r, s, q) == IF r = "A" THEN HandleA(s, q) ELSE HandleB(s, q)

(***************************************************************************)
(* The transaction of one call.  Reads see the snapshot taken at the first *)
(* read plus the call's own writes; a write to a document that another     *)
(* open transaction has written, or that was committed after the snapshot, *)
(* fails with a write conflict, which the catch block turns into           *)
(* abortTransaction and a 500; commitTransaction publishes every write of  *)
(* the session at once, abortTransaction none of them.                     *)
(***************************************************************************)
Call(c) == Handle(rev, tx[c].snap, tx[c].req)

RECURSIVE DocsOf(_, _)
DocsOf(ops, n) == IF n = 0 THEN {} ELSE ops[n].docs \cup DocsOf(ops, n - 1)

\* the documents client c has written in its open transaction
Locks(c) == IF tx[c].pc = "open" THEN DocsOf(Call(c).ops, tx[c].i) ELSE {}

\* faulty variant: no transaction: a write never conflicts
ConflictsNever(c, docs) == FALSE

\* the write conflicts with another transaction
Conflicts(c, docs) ==
    docs \cap (tx[c].stale \cup UNION {Locks(d) : d \in Clients \ {c}}) # {}

\* documents with the parts an operation wrote replaced
ApplyOp(d, op) ==
    [innings |-> IF "innings" \in op.docs THEN op.img.innings ELSE d.innings,
     match |-> IF "match" \in op.docs THEN op.img.match ELSE d.match,
     other |-> IF "other" \in op.docs THEN op.img.match ELSE d.other,
     status |-> [p \in StatusIds |->
                    IF p \in op.docs THEN op.img.status[p] ELSE d.status[p]]]

RECURSIVE ApplyOps(_, _, _)
ApplyOps(d, ops, n) ==
    IF n = 0 THEN d ELSE ApplyOp(ApplyOps(d, ops, n - 1), ops[n])

\* faulty variant: a write made without { session }: it is persisted at once
WriteOutsideSession(d, op) == ApplyOp(d, op)

\* what a write made with { session } changes in the committed documents
SessionWrite(d, op) == d

\* faulty variant: a commit that other open transactions do not notice
StaleKept(c, d) == tx[d].stale

\* what the other open transactions can no longer write after c commits
StaleAfterCommit(c, d) ==
    IF tx[d].pc = "open" THEN tx[d].stale \cup Locks(c) ELSE tx[d].stale

Req(code, cust, bowler, fielder, dismissal, nxt, role) ==
    [outcome |-> code, custom |-> cust, bowler |-> bowler, fielder |-> fielder,
     dismissal |-> dismissal, next |-> nxt, nextRole |-> role,
     inningsId |-> "i1", matchId |-> "m1"]

Ball(code) == Req(code, NoCustom, None, None, None, None, 0)

Custom(r, e, b, w) == Descriptor(r, e, b, w, FALSE)

(***************************************************************************)
(* Actions.                                                                *)
(***************************************************************************)
\* the request arrives: startTransaction, the checks and the first reads
Start(c, q, max) ==
    /\ tx[c].pc \in {"idle", "done"}
    /\ ncalls < max
    /\ tx[c].pc = "done" => \A d \in Clients : tx[d].pc # "open"
    /\ LET fresh == tx[c].pc = "done" \/ \A d \in Clients : tx[d].pc = "idle"
           mine  == [pc |-> "open", i |-> 0, stale |-> {}, resp |-> 0,
                     committed |-> FALSE, emit |-> "none",
                     req |-> q, snap |-> db]
       IN /\ tx' = [d \in Clients |->
                      IF d = c THEN mine
                      ELSE IF tx[c].pc = "done" THEN IdleTx ELSE tx[d]]
          /\ base' = IF fresh THEN db ELSE base
    /\ ncalls' = ncalls + 1
    /\ UNCHANGED <<rev, db, legal>>

\* the next awaited write of the call: it conflicts (catch: abort, 500) or
\* it is recorded in the session
Write(c) ==
    /\ tx[c].pc = "open"
    /\ tx[c].i < Len(Call(c).ops)
    /\ LET op == Call(c).ops[tx[c].i + 1]
       IN IF Conflicts(c, op.docs)
          THEN /\ tx' = [tx EXCEPT ![c].pc = "done", ![c].resp = 500]
               /\ db' = db
          ELSE /\ tx' = [tx EXCEPT ![c].i = @ + 1]
               /\ db' = SessionWrite(db, op)
    /\ UNCHANGED <<rev, base, ncalls, legal>>

\* the call ends: commitTransaction, the broadcast and the 200 in one step
\* (the socket takes the message), or abortTransaction and the error response
Finish(c) ==
    /\ tx[c].pc = "open"
    /\ tx[c].i = Len(Call(c).ops)
    /\ LET x == Call(c)
       IN IF Running(x)
          THEN /\ db' = ApplyOps(db, x.ops, Len(x.ops))
               /\ tx' = [d \in Clients |->
                           IF d = c
                           THEN [tx[c] EXCEPT !.pc = "done", !.resp = 200,
                                              !.committed = TRUE,
                                              !.emit = "sent"]
                           ELSE [tx[d] EXCEPT !.stale = StaleAfterCommit(c, d)]]
               /\ legal' = legal + (IF x.o.ball_counts THEN 1 ELSE 0)
          ELSE /\ db' = db
               /\ tx' = [tx EXCEPT ![c].pc = "done", ![c].resp = x.code]
               /\ legal' = legal
    /\ UNCHANGED <<rev, base, ncalls>>

(***************************************************************************)
(* Requests.                                                               *)
(***************************************************************************)
Single == Ball("run")

WicketTo(n, r) == Req("wicket", NoCustom, None, None, "bowled", n, r)

\* a penalty: extras outside the four named codes
Penalty == Req("penalty", Custom(0, 5, FALSE, FALSE), None, None, None, None, 0)

\* a dismissal off a delivery that does not count (a run-out off a no-ball)
RunOutOffNoBall(n, r) ==
    Req("custom", Custom(0, 0, FALSE, TRUE), None, None, "run_out", n, r)

Menu ==
    {Single, Ball("four"), Ball("wide"), Ball("bye"),
     WicketTo("b3", 1), WicketTo("b3", 2), WicketTo("b1", 2),
     WicketTo(None, 0), Penalty, RunOutOffNoBall("b2", 1),
     Req("run", NoCustom, "w2", None, None, None, 0),
     Req("catch", NoCustom, None, None, None, None, 0),
     [Single EXCEPT !.inningsId = "iX"], [Single EXCEPT !.matchId = "mX"]}

InitDb(r, n, ov, tgt) ==
    [innings |-> InitialInnings(r, n), match |-> InitialMatch(ov, tgt),
     other |-> UpcomingMatch, status |-> InitialStatus]

InitWith(n, ov, tgt) ==
    /\ rev \in {"A", "B"}
    /\ db = InitDb(rev, n, ov, tgt)
    /\ base = db
    /\ tx = [c \in Clients |-> IdleTx]
    /\ ncalls = 0
    /\ legal = 0

\* innings 1 of a one-over match, one call at a time
Init == InitWith(1, 1, 0)

Next ==
    \E c \in {1} :
        \/ \E q \in Menu : Start(c, q, MaxCalls)
        \/ Write(c)
        \/ Finish(c)

Spec == Init /\ [][Next]_vars

(***************************************************************************)
(* Two clients calling updateInnings for the same innings at once.  A      *)
(* round is the set of calls in flight together; base is the persisted     *)
(* state when the round began.                                             *)
(***************************************************************************)
ConcMenu ==
    {Single, Ball("wide"), WicketTo("b1", 2),
     Req("run", NoCustom, "w2", None, None, None, 0)}

InitConc == InitWith(1, 1, 0)

NextConc ==
    \E c \in Clients :
        \/ \E q \in ConcMenu : Start(c, q, MaxConcCalls)
        \/ Write(c)
        \/ Finish(c)

SpecConc == InitConc /\ [][NextConc]_vars

Quiet == \A c \in Clients : tx[c].pc # "open"
BothDone == \A c \in Clients : tx[c].pc = "done"
Succeeded == {c \in Clients : tx[c].pc = "done" /\ tx[c].resp = 200}

\* one call alone on documents d: whether it is accepted, and what it leaves
Accepts(d, q) == Running(Handle(rev, d, q))
Applied(d, q) ==
    LET x == Handle(rev, d, q) IN ApplyOps(d, x.ops, Len(x.ops))

TwoSingles == BothDone /\ \A c \in Clients : tx[c].req = Single

\* C1 as stated: two concurrent single-run deliveries always leave runs and
\* balls increased by exactly 2
C1_AlwaysPlusTwo ==
    TwoSingles =>
        /\ db.innings.runs = base.innings.runs + 2
        /\ db.innings.balls = base.innings.balls + 2

\* C1 amended: runs and balls increase by exactly the number of the two calls
\* that returned success, and at least one succeeds when the innings takes a
\* single at all; the loser of a write conflict is aborted and answered 500
C1_PlusSucceeded ==
    TwoSingles =>
        /\ db.innings.runs = base.innings.runs + Cardinality(Succeeded)
        /\ db.innings.balls = base.innings.balls + Cardinality(Succeeded)
        /\ Accepts(base, Single) => Cardinality(Succeeded) >= 1

\* two overlapping singles: one committed, the other lost the conflict
C1_Witness ==
    /\ TwoSingles
    /\ {tx[c].resp : c \in Clients} = {200, 500}
    /\ db.innings.runs = base.innings.runs + 1

\* C2: when no call is in flight, the persisted documents are those left by
\* the successful calls of the round applied one after another in some
\* order, each accepted in its turn; a failed call contributes nothing
C2_Serialized ==
    Quiet =>
        \/ Succeeded = {} /\ db = base
        \/ \E c \in Clients :
             /\ Succeeded = {c}
             /\ Accepts(base, tx[c].req)
             /\ db = Applied(base, tx[c].req)
        \/ \E c, d \in Clients :
             /\ c # d /\ Succeeded = {c, d}
             /\ Accepts(base, tx[c].req)
             /\ Accepts(Applied(base, tx[c].req), tx[d].req)
             /\ db = Applied(Applied(base, tx[c].req), tx[d].req)

\* both calls of a round succeeded and both changed the documents
C2_Witness ==
    /\ BothDone /\ Succeeded = Clients
    /\ tx[1].req # tx[2].req
    /\ db.innings.wickets = base.innings.wickets + 1
    /\ db.innings.runs = base.innings.runs + 1

(***************************************************************************)
(* One call at a time (Spec).                                              *)
(***************************************************************************)
Last == tx[1]
LastDone == Last.pc = "done"
LastOk == LastDone /\ Last.resp = 200
LastOutcome == Resolve(Last.req)

C4_BallsCountLegal ==
    /\ db.innings.balls = legal
    /\ (LastOk /\ Last.req.outcome \in {"wide", "noball"})
          => db.innings.balls = Last.snap.innings.balls

\* a wide applied after two legal deliveries
C4_Witness ==
    /\ LastOk /\ Last.req.outcome = "wide"
    /\ db.innings.balls = 2 /\ legal = 2

\* C5 as stated: extras.total is the sum of the five named extras
C5_ExtrasTotal ==
    db.innings.total =
        db.innings.wides + db.innings.noBalls + db.innings.byes
        + db.innings.legByes + db.innings.penalty_runs

RECURSIVE BattingRuns(_, _)
BattingRuns(st, ps) ==
    IF ps = {} THEN 0
    ELSE LET p == CHOOSE r \in ps : TRUE
         IN st[p].runs + BattingRuns(st, ps \ {p})

\* C6 as stated (SpecFrame): score.runs is the batting runs of all Status
\* documents of the innings plus extras.total
C6_RunsSplit ==
    db.innings.runs = BattingRuns(db.status, Players) + db.innings.total

\* the two active batsmen are different players, one striker, one non-striker
TwoRoles(d) ==
    LET cb == d.innings.current_batsmen
    IN /\ Len(cb) = 2
       /\ cb[1] # cb[2]
       /\ {d.status[cb[1]].stricking_role, d.status[cb[2]].stricking_role} = {1, 2}

\* C7 as stated: after every successful wicket delivery the active batsmen
\* are exactly two players with roles 1 and 2, none with role 0
C7_RolesAfterWicket ==
    (LastOk /\ LastOutcome.is_wicket /\ Last.req.nextRole \in {1, 2})
        => TwoRoles(db)

(***************************************************************************)
(* Deliveries up to the end of an over (SpecOver): two overs, no wickets.  *)
(***************************************************************************)
OverMenu == {Single, Ball("four"), Ball("wide")}

MaxOverCalls == 7

InitOver == InitWith(1, 2, 0)

NextOver ==
    \E c \in {1} :
        \/ \E q \in OverMenu : Start(c, q, MaxOverCalls)
        \/ Write(c)
        \/ Finish(c)

SpecOver == InitOver /\ [][NextOver]_vars

\* the roles of the batsmen who were active before the call were exchanged
RolesSwapped(before, after) ==
    \A k \in 1..Len(before.innings.current_batsmen) :
        LET p == before.innings.current_batsmen[k]
        IN after.status[p].stricking_role = 3 - before.status[p].stricking_role

RolesKept(before, after) ==
    \A k \in 1..Len(before.innings.current_batsmen) :
        LET p == before.innings.current_batsmen[k]
        IN after.status[p].stricking_role = before.status[p].stricking_role

\* C8 as stated: after a legal non-wicket delivery the roles are exchanged
\* when exactly one of "odd runs" and "the over ends" holds, and are as
\* before when neither or both hold
C8_StrikeParity ==
    (LastOk /\ LastOutcome.ball_counts /\ ~LastOutcome.is_wicket
       /\ TwoRoles(Last.snap))
    => LET odd  == LastOutcome.runs % 2 # 0
           over == db.innings.balls % BallsPerOver = 0
       IN IF odd # over THEN RolesSwapped(Last.snap, db)
          ELSE RolesKept(Last.snap, db)

(***************************************************************************)
(* Long innings (SpecDeep): two overs, singles and dismissals off          *)
(* deliveries that do not count.                                           *)
(***************************************************************************)
DeepMenu == {Single, RunOutOffNoBall("b1", 2), RunOutOffNoBall("b2", 2)}

InitDeep == InitWith(1, 2, 0)

NextDeep ==
    \E c \in {1} :
        \/ \E q \in DeepMenu : Start(c, q, MaxDeepCalls)
        \/ Write(c)
        \/ Finish(c)

SpecDeep == InitDeep /\ [][NextDeep]_vars

\* C9 as stated: score.wickets never exceeds 10
C9_WicketsAtMostTen == db.innings.wickets <= AllOutWickets

\* C10 as stated: once the legal balls of innings 1 reach overs * 6 or its
\* 10th wicket has fallen, the innings is completed and the target is its
\* runs + 1
C10_FirstInningsCompletes ==
    (/\ db.innings.innings_number = 1
     /\ \/ db.innings.balls >= db.match.overs * BallsPerOver
        \/ db.innings.wickets >= AllOutWickets)
    => /\ db.innings.status = "completed"
       /\ db.match.target_runs = db.innings.runs + 1

(***************************************************************************)
(* The chase (SpecChase): innings 2 of a one-over match, target 3.         *)
(***************************************************************************)
\* Innings.batting_team_id / bowling_team_id of the innings being played
BattingTeam == "teamA"
BowlingTeam == "teamB"

ChaseTarget == 3

ChaseMenu == {Single, Ball("four"), Ball("wide"), WicketTo("b1", 2)}

MaxChaseCalls == 7

InitChase == InitWith(2, 1, ChaseTarget)

NextChase ==
    \E c \in {1} :
        \/ \E q \in ChaseMenu : Start(c, q, MaxChaseCalls)
        \/ Write(c)
        \/ Finish(c)

SpecChase == InitChase /\ [][NextChase]_vars

\* C11 as stated: in innings 2 with a target, an applied legal delivery that
\* brings score.runs to the target or beyond completes the innings and the
\* match in that call, whatever the ball of the over, and the winner is the
\* batting team
C11_TargetReachedWins ==
    (/\ LastOk /\ LastOutcome.ball_counts
     /\ Last.snap.innings.innings_number = 2
     /\ Last.snap.match.target_runs # 0
     /\ Last.snap.innings.runs < Last.snap.match.target_runs
     /\ db.innings.runs >= db.match.target_runs)
    => /\ db.innings.status = "completed"
       /\ db.match.status = "completed"
       /\ db.match.winner = BattingTeam

\* C12 as stated: a completed innings 2 leaves the match completed, with an
\* end time and exactly the result the comparison of runs and target gives
C12_ResultRecorded ==
    (db.innings.innings_number = 2 /\ db.innings.status = "completed")
    => /\ db.match.status = "completed"
       /\ db.match.endTime
       /\ db.match.winner =
             IF db.innings.runs > db.match.target_runs THEN BattingTeam
             ELSE IF db.innings.runs < db.match.target_runs THEN BowlingTeam
             ELSE "Tie"

(***************************************************************************)
(* Requests at the edge of the contract (SpecEdge): wickets without a next *)
(* batsman, codes outside the catalog, dismissal types.                    *)
(***************************************************************************)
\* a wicket off a delivery that does not count, no next batsman named
CustomWicketNoNext == RunOutOffNoBall(None, 2)

\* the catalog wicket with a given dismissal type
Dismissed(d) == Req("wicket", NoCustom, None, None, d, "b1", 2)

EdgeMenu ==
    {Single, Ball("wide"),
     WicketTo(None, 0), WicketTo(None, 2), CustomWicketNoNext,
     [CustomWicketNoNext EXCEPT !.bowler = "w2"],
     WicketTo("b1", 2), Dismissed(None), Dismissed("timed_out"),
     Penalty, Req("catch", NoCustom, None, None, None, None, 0)}

MaxEdgeCalls == 3

InitEdge == InitWith(1, 1, 0)

NextEdge ==
    \E c \in {1} :
        \/ \E q \in EdgeMenu : Start(c, q, MaxEdgeCalls)
        \/ Write(c)
        \/ Finish(c)

SpecEdge == InitEdge /\ [][NextEdge]_vars

\* C13 as stated: a call whose resolved outcome is a wicket and that names
\* no next batsman is answered with a validation error (400) and leaves the
\* score, the active batsmen, the commentary and every Status as they were
C13_WicketNeedsNext ==
    (LastDone /\ LastOutcome.is_wicket /\ Last.req.next = None)
    => /\ Last.resp = 400
       /\ db = Last.snap

\* C14: once the innings is completed, every later call is rejected and the
\* Innings document (score, active batsmen, current bowler, commentary,
\* status) and the Status documents never change again
C14_CompletedIsFinal ==
    [][db.innings.status = "completed"
         => /\ db'.innings = db.innings
            /\ db'.status = db.status
            /\ (tx'[1].pc = "done" /\ tx[1].pc # "done") => tx'[1].resp # 200]_vars

\* a call made after the innings was completed has been rejected
C14_Witness ==
    /\ LastDone /\ Last.resp = 400
    /\ Last.snap.innings.status = "completed"
    /\ db.innings.status = "completed"
    /\ db = Last.snap

(***************************************************************************)
(* The end of a call step by step (SpecIo): commitTransaction, then        *)
(* io.emit('innings-updated', ...), which may throw, then the response.    *)
(***************************************************************************)
\* session.commitTransaction(): every write of the session becomes visible
Commit(c) ==
    /\ tx[c].pc = "open"
    /\ tx[c].i = Len(Call(c).ops)
    /\ Running(Call(c))
    /\ LET x == Call(c)
       IN /\ db' = ApplyOps(db, x.ops, Len(x.ops))
          /\ tx' = [d \in Clients |->
                      IF d = c
                      THEN [tx[c] EXCEPT !.pc = "committed", !.committed = TRUE]
                      ELSE [tx[d] EXCEPT !.stale = StaleAfterCommit(c, d)]]
          /\ legal' = legal + (IF x.o.ball_counts THEN 1 ELSE 0)
    /\ UNCHANGED <<rev, base, ncalls>>

\* an early return or the catch block: abortTransaction and the error response
Abort(c) ==
    /\ tx[c].pc = "open"
    /\ tx[c].i = Len(Call(c).ops)
    /\ ~Running(Call(c))
    /\ tx' = [tx EXCEPT ![c].pc = "done", ![c].resp = Call(c).code]
    /\ UNCHANGED <<rev, db, base, ncalls, legal>>

\* what the catch block answers after a commit: abortTransaction() on the
\* committed transaction throws inside the catch and no response is sent
\* (0), or it is ignored and httpError answers 500
CatchAfterCommit == {0, 500}

\* faulty variant: the broadcast placed before commitTransaction
EmitUncommitted(c, ok) ==
    /\ tx[c].pc = "open"
    /\ tx[c].i = Len(Call(c).ops)
    /\ tx' = [tx EXCEPT ![c].pc = "emitted", ![c].emit = "sent"]
    /\ UNCHANGED <<rev, db, base, ncalls, legal>>

\* io.emit('innings-updated', ...): it returns, or it throws into the catch
Emit(c, ok) ==
    /\ tx[c].pc = "committed"
    /\ IF ok
       THEN tx' = [tx EXCEPT ![c].pc = "emitted", ![c].emit = "sent"]
       ELSE \E r \in CatchAfterCommit :
               tx' = [tx EXCEPT ![c].pc = "done", ![c].emit = "failed",
                                ![c].resp = r]
    /\ UNCHANGED <<rev, db, base, ncalls, legal>>

\* httpResponse(req, res, 200, ...)
Respond(c) ==
    /\ tx[c].pc = "emitted"
    /\ tx' = [tx EXCEPT ![c].pc = "done", ![c].resp = 200]
    /\ UNCHANGED <<rev, db, base, ncalls, legal>>

IoMenu ==
    {Single, Ball("wide"), WicketTo("b3", 1), WicketTo(None, 0),
     Req("run", NoCustom, "w2", None, None, None, 0)}

MaxIoCalls == 4

InitIo == InitWith(1, 1, 0)

NextIo ==
    \E c \in {1} :
        \/ \E q \in IoMenu : Start(c, q, MaxIoCalls)
        \/ Write(c)
        \/ Commit(c)
        \/ Abort(c)
        \/ \E ok \in BOOLEAN : Emit(c, ok)
        \/ Respond(c)

SpecIo == InitIo /\ [][NextIo]_vars

\* C15: 'innings-updated' has been emitted only by a call whose
\* transaction has committed; a call that aborted has emitted nothing
C15_EmitAfterCommit ==
    \A c \in Clients :
        /\ tx[c].emit = "sent" => tx[c].committed
        /\ (tx[c].pc = "done" /\ ~tx[c].committed) => tx[c].emit = "none"

\* a call committed its writes and then emitted; before it, nothing was sent
C15_Witness ==
    /\ Last.pc = "emitted" /\ Last.emit = "sent" /\ Last.committed
    /\ db # Last.snap

\* C16 as stated: a call that has committed is answered 200 even when the
\* broadcast fails, and its committed state is kept
C16_EmitFailureIsSuccess ==
    (LastDone /\ Last.committed)
    => /\ Last.resp = 200
       /\ db = Applied(Last.snap, Last.req)

(***************************************************************************)
(* A long log (SpecLog): singles in a four-over innings, more calls than   *)
(* the commentary holds entries.                                           *)
(***************************************************************************)
LogMenu == {Single, WicketTo(None, 0)}

LogOvers == 4

MaxLogCalls == 22

InitLog == InitWith(1, LogOvers, 0)

NextLog ==
    \E c \in {1} :
        \/ \E q \in LogMenu : Start(c, q, MaxLogCalls)
        \/ Write(c)
        \/ Finish(c)

SpecLog == InitLog /\ [][NextLog]_vars

\* the entries appended by the first n applied singles, in append order
\* (rev A appends after counting the ball, rev B before)
Appended(n) ==
    [k \in 1..n |-> Entry(IF rev = "A" THEN k ELSE k - 1, "ball")]

LastOf(seq, n) ==
    IF Len(seq) > n THEN SubSeq(seq, Len(seq) - n + 1, Len(seq)) ELSE seq

\* C17: the persisted commentary never holds more than 20 entries, it is
\* exactly the most recent (at most 20) entries appended, in append order,
\* and a single is applied whether or not the log is full
C17_CommentaryCapped ==
    /\ Len(db.innings.commentary) <= CommentaryCap
    /\ db.innings.status = "ongoing"
          => db.innings.commentary
               = LastOf(Appended(db.innings.balls), CommentaryCap)
    /\ (LastDone /\ Last.req = Single /\ Last.snap.innings.status = "ongoing")
          => Last.resp = 200

\* 22 singles applied: the log is full and its two oldest entries are gone
C17_Witness ==
    /\ db.innings.balls = 22
    /\ Len(db.innings.commentary) = CommentaryCap
    /\ db.innings.commentary[1] = Appended(22)[3]
    /\ db.innings.commentary[CommentaryCap] = Appended(22)[22]

(***************************************************************************)
(* startInnings (SpecStart): two clients start innings of one match.  The  *)
(* documents are the Innings collection, the match's innings array and     *)
(* the keys of the Status collection's unique index.                       *)
(***************************************************************************)
Teams == {"A", "B"}

OtherTeam(t) == IF t = "A" THEN "B" ELSE "A"

\* req.body of startInnings: innings_number and the batting team
StartReq(n, t) == [innings_number |-> n, batting |-> t]

StartMenu == {StartReq(n, t) : n \in {1, 2}, t \in Teams}

\* rev A takes the teams from the request; rev B derives them from the toss
BattingOf(q) ==
    IF rev = "A" THEN q.batting
    ELSE IF q.innings_number = 1 THEN "A" ELSE "B"

\* the unique keys (match, innings_number, player) of the Status documents
\* the call creates: the openers of the batting team, the keeper and the
\* bowler of the bowling team
StatusKeys(q) ==
    {<<"openers", BattingOf(q), q.innings_number>>,
     <<"keeper", OtherTeam(BattingOf(q)), q.innings_number>>,
     <<"bowler", OtherTeam(BattingOf(q)), q.innings_number>>}

\* the key of the Match document among the documents written
MatchDoc == <<"match", "m1", 0>>

\* the documents a startInnings transaction has written so far
StartLocks(c) ==
    IF tx[c].pc \in {"starting", "abandoned"}
    THEN (IF tx[c].i >= 1 THEN StatusKeys(tx[c].req) ELSE {})
         \cup (IF tx[c].i >= 2 THEN {MatchDoc} ELSE {})
    ELSE {}

\* faulty variant: writes of two transactions never collide
StartConflictsNever(c, docs) == FALSE

\* the write meets a document written by another open transaction, or
\* committed after this transaction's snapshot
StartConflicts(c, docs) ==
    docs \cap (tx[c].stale \cup UNION {StartLocks(d) : d \in Clients \ {c}}) # {}

InitStart ==
    /\ rev \in {"A", "B"}
    /\ db = [innings |-> {}, match |-> [innings |-> <<>>, status |-> "upcoming"],
             status |-> {}]
    /\ base = db
    /\ tx = [c \in Clients |-> IdleTx]
    /\ ncalls = 0
    /\ legal = 0

MaxStartCalls == 4

\* startTransaction, the checks and the reads: "Innings n already exists"
\* is decided on the snapshot; in rev B a team lookup may find nothing
BeginStart(c, q) ==
    /\ tx[c].pc \in {"idle", "done"}
    /\ ncalls < MaxStartCalls
    /\ ncalls' = ncalls + 1
    /\ \E found \in IF rev = "A" THEN {TRUE} ELSE BOOLEAN :
         LET mine == [IdleTx EXCEPT !.req = q, !.snap = db]
             exists == \E d \in db.innings : d.innings_number = q.innings_number
         IN tx' = [tx EXCEPT ![c] =
                     IF exists THEN [mine EXCEPT !.pc = "done", !.resp = 400]
                     ELSE IF ~found THEN [mine EXCEPT !.pc = "done", !.resp = 404]
                     ELSE [mine EXCEPT !.pc = "starting"]]
    /\ UNCHANGED <<rev, db, base, legal>>

\* Status.create (four documents) and Innings.create, in the session; an
\* error leaves through the catch, which answers but does not abort
CreateDocs(c) ==
    /\ tx[c].pc = "starting" /\ tx[c].i = 0
    /\ tx' = [tx EXCEPT ![c] =
                IF StartConflicts(c, StatusKeys(tx[c].req))
                THEN [@ EXCEPT !.pc = "abandoned", !.resp = 500]
                ELSE [@ EXCEPT !.i = 1]]
    /\ UNCHANGED <<rev, db, base, ncalls, legal>>

\* match.innings.push(...); match.save({ session })
SaveMatch(c) ==
    /\ tx[c].pc = "starting" /\ tx[c].i = 1
    /\ tx' = [tx EXCEPT ![c] =
                IF StartConflicts(c, {MatchDoc})
                THEN [@ EXCEPT !.pc = "abandoned", !.resp = 500]
                ELSE [@ EXCEPT !.i = 2]]
    /\ UNCHANGED <<rev, db, base, ncalls, legal>>

\* commitTransaction and the 201
CommitStart(c) ==
    /\ tx[c].pc = "starting" /\ tx[c].i = 2
    /\ LET q   == tx[c].req
           doc == [id |-> <<c, ncalls>>, innings_number |-> q.innings_number,
                   batting |-> BattingOf(q), status |-> "ongoing"]
       IN /\ db' = [innings |-> db.innings \cup {doc},
                    match |-> [innings |-> Append(db.match.innings, doc.id),
                               status |-> "in_progress"],
                    status |-> db.status \cup StatusKeys(q)]
          /\ tx' = [d \in Clients |->
                      IF d = c
                      THEN [tx[c] EXCEPT !.pc = "done", !.resp = 201,
                                         !.committed = TRUE]
                      ELSE IF tx[d].pc = "starting"
                      THEN [tx[d] EXCEPT !.stale = @ \cup StartLocks(c)]
                      ELSE tx[d]]
    /\ UNCHANGED <<rev, base, ncalls, legal>>

\* the transaction the catch block left open is aborted by the server
ExpireStart(c) ==
    /\ tx[c].pc = "abandoned"
    /\ tx' = [tx EXCEPT ![c].pc = "done"]
    /\ UNCHANGED <<rev, db, base, ncalls, legal>>

NextStart ==
    \E c \in Clients :
        \/ \E q \in StartMenu : BeginStart(c, q)
        \/ CreateDocs(c)
        \/ SaveMatch(c)
        \/ CommitStart(c)
        \/ ExpireStart(c)

SpecStart == InitStart /\ [][NextStart]_vars

\* C18: at most one Innings exists per innings number of the match, and
\* match.innings holds exactly the innings created, also when two
\* startInnings calls for the same number run concurrently
C18_OneInningsPerNumber ==
    /\ \A n \in {1, 2} :
          Cardinality({d \in db.innings : d.innings_number = n}) <= 1
    /\ Len(db.match.innings) = Cardinality(db.innings)

\* two calls for innings 1 with different teams read the same empty
\* snapshot; one created the innings, the other failed
C18_Witness ==
    /\ \A c \in Clients :
          /\ tx[c].pc = "done" /\ tx[c].req.innings_number = 1
          /\ tx[c].snap.innings = {}
    /\ tx[1].req.batting # tx[2].req.batting
    /\ tx[1].resp = 201 /\ tx[2].resp = 500
    /\ Cardinality(db.innings) = 1

\* C19 as stated (SpecEdge): a code outside the catalog without a custom
\* descriptor is rejected with nothing changed, and a code outside the
\* catalog with a valid descriptor is applied with the descriptor's effect
C19_CustomOutcome ==
    LastDone =>
      /\ (Last.req.outcome \notin Codes /\ ~Last.req.custom.given)
            => (Last.resp # 200 /\ db = Last.snap)
      /\ (/\ Last.req.outcome \notin Codes /\ Last.req.custom.given
          /\ ~Last.req.custom.is_wicket /\ Last.req.bowler = None
          /\ Last.snap.innings.status = "ongoing" /\ TwoRoles(Last.snap))
            => /\ Last.resp = 200
               /\ db.innings.runs = Last.snap.innings.runs
                      + Last.req.custom.runs + Last.req.custom.extras
               /\ db.innings.total = Last.snap.innings.total + Last.req.custom.extras
               /\ db.innings.balls = Last.snap.innings.balls
                      + (IF Last.req.custom.ball_counts THEN 1 ELSE 0)
               /\ db.innings.wickets = Last.snap.innings.wickets

\* OUT_TYPE_ENUM
OutTypes ==
    {"caught", "bowled", "run_out", "stumped", "lbw", "hit_wicket", "other"}

\* C20 as stated (SpecEdge): a wicket delivery without a dismissal type of
\* the enumeration is rejected with nothing changed, and no Status document
\* stores an out type outside the enumeration
C20_DismissalEnum ==
    /\ (LastDone /\ LastOutcome.is_wicket /\ Last.req.dismissal \notin OutTypes)
          => (Last.resp # 200 /\ db = Last.snap)
    /\ \A p \in Players : db.status[p].out_type \in OutTypes \cup {None}

\* C21 as stated (Spec): current_batsmen never holds more than two entries
\* and never the same player twice
C21_AtMostTwoActive ==
    LET cb == db.innings.current_batsmen
    IN /\ Len(cb) <= 2
       /\ \A j, k \in 1..Len(cb) : j # k => cb[j] # cb[k]

(***************************************************************************)
(* The last ball (SpecFinish): a one-over innings with wickets on every    *)
(* delivery, counted or not.                                               *)
(***************************************************************************)
FinishMenu ==
    {WicketTo("b1", 2), WicketTo("b2", 2),
     RunOutOffNoBall("b1", 2), RunOutOffNoBall("b2", 2)}

MaxFinishCalls == 10

InitFinish == InitWith(1, 1, 0)

NextFinish ==
    \E c \in {1} :
        \/ \E q \in FinishMenu : Start(c, q, MaxFinishCalls)
        \/ Write(c)
        \/ Finish(c)

SpecFinish == InitFinish /\ [][NextFinish]_vars

\* the commentary entries that announce a completion (target, result)
RECURSIVE Announcements(_)
Announcements(c) ==
    IF c = <<>> THEN 0
    ELSE (IF Head(c).description \in {"target", "win", "reached"} THEN 1 ELSE 0)
         + Announcements(Tail(c))

\* C22 as stated: the delivery that completes the innings, also when it
\* both exhausts the overs and takes the 10th wicket, appends exactly one
\* completion commentary entry
C22_CompletesOnce ==
    db.innings.status = "completed"
        => Announcements(db.innings.commentary) = 1

\* C23 as stated (Spec): a single bowled by a bowler named in the request
\* succeeds whether or not he has a Status document, his figures are
\* credited once, and he is the current bowler afterwards
C23_BowlerChange ==
    (/\ LastDone /\ Last.req.outcome = "run" /\ Last.req.bowler # None
     /\ Last.snap.innings.status = "ongoing" /\ TwoRoles(Last.snap))
    => LET p == Last.req.bowler
       IN /\ Last.resp = 200
          /\ db.status[p].exists
          /\ db.status[p].runs_conceded = Last.snap.status[p].runs_conceded + 1
          /\ db.status[p].balls_bowled = Last.snap.status[p].balls_bowled + 1
          /\ db.innings.current_bowler = p

\* ---------------------------------------------------------------------
\* Dismissals that credit a fielder: wk has a Status document, w2 has none

Caught(f) == Req("wicket", NoCustom, None, f, "caught", "b1", 2)

Stumped(f) == Req("wicket", NoCustom, None, f, "stumped", "b1", 2)

FieldMenu == {Single, Caught("wk"), Caught("w2"), Stumped("wk"), Stumped("w2")}

MaxFieldCalls == 4

InitField == InitWith(1, 1, 0)

NextField ==
    \/ \E q \in FieldMenu : Start(1, q, MaxFieldCalls)
    \/ Write(1)
    \/ Finish(1)

SpecField == InitField /\ [][NextField]_vars

\* C24 as stated (SpecField): a caught (stumped) wicket naming a fielder adds
\* exactly 1 to his catches (stumpings) and leaves his other fielding
\* counter alone, and an otherwise acceptable call does not fail because the
\* fielder had no Status document
C24_FielderCredited ==
    (/\ LastDone /\ Last.req.outcome = "wicket" /\ Last.req.fielder # None
     /\ Last.snap.innings.status = "ongoing" /\ TwoRoles(Last.snap))
    => LET f == Last.req.fielder
           d == Last.req.dismissal
           old == Last.snap.status[f]
       IN /\ Last.resp = 200
          /\ db.status[f].exists
          /\ db.status[f].catches = old.catches + (IF d = "caught" THEN 1 ELSE 0)
          /\ db.status[f].stumpings = old.stumpings + (IF d = "stumped" THEN 1 ELSE 0)

\* C25 as stated (SpecStart): an innings 2 exists only if innings 1 of the
\* match exists and is completed, and the two are never ongoing together
C25_SecondAfterFirst ==
    \A d \in db.innings :
        d.innings_number = 2 =>
            /\ \E e \in db.innings : e.innings_number = 1 /\ e.status = "completed"
            /\ ~\E e \in db.innings : e.innings_number = 1 /\ e.status = "ongoing"
                                      /\ d.status = "ongoing"

\* ---------------------------------------------------------------------
\* A wicket on the last ball of an over (SpecSixth): two overs, singles and
\* dismissals off legal deliveries

SixthMenu ==
    {Single, WicketTo("b1", 1), WicketTo("b1", 2), WicketTo("b2", 1),
     WicketTo("b2", 2), WicketTo("b3", 2)}

MaxSixthCalls == 7

InitSixth == InitWith(1, 2, 0)

NextSixth ==
    \/ \E q \in SixthMenu : Start(1, q, MaxSixthCalls)
    \/ Write(1)
    \/ Finish(1)

SpecSixth == InitSixth /\ [][NextSixth]_vars

\* the batsman who was at the other end before the call
OtherEnd(d) == FindRole(d.innings.current_batsmen, d.status, 2)

\* C26 as stated (SpecSixth): a wicket on the legal delivery that ends an
\* over is followed by the end-of-over swap of the two batsmen active after
\* the dismissal, so the batsman who stayed holds the end that was asked
\* for the incoming batsman
C26_SwapOnWicketBall ==
    (/\ LastOk /\ LastOutcome.is_wicket /\ LastOutcome.ball_counts
     /\ db.innings.balls % BallsPerOver = 0
     /\ TwoRoles(Last.snap) /\ Last.req.next # OtherEnd(Last.snap))
    => db.status[OtherEnd(Last.snap)].stricking_role = Last.req.nextRole

\* ---------------------------------------------------------------------
\* Two matches between the same sides (SpecFrame): the innings belongs to
\* the one-over match m1; innings 1 of the two-over match m2 has been
\* started with the same openers, keeper and bowler

Via(q) == [q EXCEPT !.matchId = "m2"]

FrameMenu == {Single, Via(Single), Via(Ball("wide"))}

MaxFrameCalls == 8

\* the Status documents startInnings created under each of the two matches
FrameStatus ==
    [k \in StatusIds |-> InitialStatus[PlayerOf(k)]]

InitFrame ==
    /\ rev \in {"A", "B"}
    /\ db = [InitDb(rev, 1, 1, 0) EXCEPT
                !.other = InitialMatch(OtherOvers, 0), !.status = FrameStatus]
    /\ base = db
    /\ tx = [c \in Clients |-> IdleTx]
    /\ ncalls = 0
    /\ legal = 0

NextFrame ==
    \/ \E q \in FrameMenu : Start(1, q, MaxFrameCalls)
    \/ Write(1)
    \/ Finish(1)

SpecFrame == InitFrame /\ [][NextFrame]_vars

\* C27 as stated (SpecFrame): the balls of the innings never exceed the
\* overs of its match times six, and an innings that has received them all
\* is completed
C27_BallsWithinOvers ==
    /\ db.innings.balls <= db.match.overs * BallsPerOver
    /\ db.innings.balls = db.match.overs * BallsPerOver
          => db.innings.status = "completed"

\* C28 as stated (SpecFrame): a call whose matchId names another existing
\* match is rejected and leaves that match and its Status documents as
\* they were
C28_OwnMatchOnly ==
    (LastDone /\ Last.req.matchId = "m2")
    => /\ Last.resp # 200
       /\ db.other = Last.snap.other
       /\ \A p \in Players :
             db.status[StatusIdOf("m2", p)] = Last.snap.status[StatusIdOf("m2", p)]

\* C29 as stated (Spec): on a wicket the accepted next batsman is neither
\* of the two batsmen active before the delivery (the non-striker, the
\* striker being dismissed) nor one dismissed earlier, and a batsman of the
\* side who has not batted yet is admitted
C29_NextBatsmanEligible ==
    (/\ LastDone /\ LastOutcome.is_wicket /\ Last.req.next # None
     /\ Last.req.nextRole \in {1, 2} /\ Last.req.bowler = None
     /\ Last.snap.innings.status = "ongoing" /\ TwoRoles(Last.snap))
    => LET n  == Last.req.next
           cb == Last.snap.innings.current_batsmen
       IN /\ Last.resp = 200
             => /\ ~InSeq(cb, n)
                /\ Last.snap.status[n].out_type = None
          /\ (n \in Batters /\ ~Last.snap.status[n].exists) => Last.resp = 200

\* the active batsmen who hold the striker's end
Strikers(d) ==
    {p \in StatusIds : /\ InSeq(d.innings.current_batsmen, p)
                       /\ d.status[p].stricking_role = 1}

\* C30 as stated (SpecSixth): while the innings is ongoing exactly one
\* active batsman has striking role 1, and a single bowled by the current
\* bowler is accepted
C30_NeverStuck ==
    /\ db.innings.status = "ongoing" => Cardinality(Strikers(db)) = 1
    /\ (LastDone /\ Last.req = Single /\ Last.snap.innings.status = "ongoing")
          => Last.resp = 200

====
